---- MODULE Spec2Model ----
(***************************************************************************)
(* Model of the chat route handler, src/app/api/chat/route.ts (POST and    *)
(* its helpers, lines 1-408), together with the client conversation loop   *)
(* of src/app/page.tsx that feeds it.                                      *)
(*                                                                         *)
(* Texts are TLA+ strings handled character by character (Len, SubSeq,     *)
(* Head, Tail and \o act on strings in TLC).  In an optional string field  *)
(* the empty string stands for both JavaScript falsy values (undefined     *)
(* and ''), which the code never tells apart (it only uses || and          *)
(* truthiness tests on them).                                              *)
(***************************************************************************)
EXTENDS Integers, Sequences, FiniteSets, TLC

(* ------------------------------ bounds -------------------------------- *)

\* the longest conversation history sent in a request
MaxTurns == 3

\* how many responses the client drops instead of appending them
MaxDiscards == 1

(* --------------------------- string helpers --------------------------- *)

\* String.prototype.charAt, 1-based
CharAt(s, i) == SubSeq(s, i, i)

\* String.prototype.includes
Includes(s, sub) ==
  \E i \in 1..(Len(s) - Len(sub) + 1) : SubSeq(s, i, i + Len(sub) - 1) = sub

\* String.prototype.startsWith
StartsWith(s, pre) == Len(pre) <= Len(s) /\ SubSeq(s, 1, Len(pre)) = pre

\* String.prototype.endsWith
EndsWith(s, suf) ==
  Len(suf) <= Len(s) /\ SubSeq(s, Len(s) - Len(suf) + 1, Len(s)) = suf

\* String.prototype.trim for the white space a text can hold here
RECURSIVE TrimStart(_)
TrimStart(s) ==
  IF s # "" /\ Head(s) \in {" ", "\n", "\t", "\r"} THEN TrimStart(Tail(s)) ELSE s
RECURSIVE TrimEnd(_)
TrimEnd(s) ==
  IF s # "" /\ CharAt(s, Len(s)) \in {" ", "\n", "\t", "\r"}
  THEN TrimEnd(SubSeq(s, 1, Len(s) - 1)) ELSE s
Trim(s) == TrimEnd(TrimStart(s))

\* String.prototype.slice(from, to) for 0 <= from <= to, 0-based, end excluded
Slice(s, from, to) ==
  SubSeq(s, from + 1, IF to <= Len(s) THEN to ELSE Len(s))

UpperChars == "ABCDEFGHIJKLMNOPQRSTUVWXYZ"
LowerChars == "abcdefghijklmnopqrstuvwxyz"
DigitChars == "0123456789"

\* the lower-case letter of each upper-case letter
LowerOf ==
  [c \in {CharAt(UpperChars, i) : i \in 1..26} |->
     CharAt(LowerChars, CHOOSE i \in 1..26 : CharAt(UpperChars, i) = c)]

LowerChar(c) == IF c \in DOMAIN LowerOf THEN LowerOf[c] ELSE c

\* String.prototype.toLowerCase
RECURSIVE ToLowerCase(_)
ToLowerCase(s) ==
  IF s = "" THEN "" ELSE LowerChar(Head(s)) \o ToLowerCase(Tail(s))

\* the regex class \w
WordChars ==
  {CharAt(UpperChars, i) : i \in 1..26} \cup {CharAt(LowerChars, i) : i \in 1..26}
    \cup {CharAt(DigitChars, i) : i \in 1..10} \cup {"_"}

IsWordChar(c) == c \in WordChars

\* /\bw\b/ for a word w made of \w characters: an occurrence of w with no
\* \w character right before it and none right after it
MatchesWord(s, w) ==
  \E i \in 1..(Len(s) - Len(w) + 1) :
    /\ SubSeq(s, i, i + Len(w) - 1) = w
    /\ (i = 1 \/ ~IsWordChar(CharAt(s, i - 1)))
    /\ (i + Len(w) - 1 = Len(s) \/ ~IsWordChar(CharAt(s, i + Len(w))))

\* AnalyzePattern without the word boundaries around ocr and 3
AnalyzePattern_NoBoundary(text) ==
  LET t == ToLowerCase(text) IN
    \/ Includes(t, "analyz")
    \/ Includes(t, "analyze")
    \/ Includes(t, "analysis")
    \/ Includes(t, "ocr")
    \/ Includes(t, "3")

\* /analyz|analyze|analysis|\bocr\b|\b(3)\b/i.test(text)
AnalyzePattern(text) ==
  LET t == ToLowerCase(text) IN
    \/ Includes(t, "analyz")
    \/ Includes(t, "analyze")
    \/ Includes(t, "analysis")
    \/ MatchesWord(t, "ocr")
    \/ MatchesWord(t, "3")

(* ----------------------------- data model ----------------------------- *)

\* a content part; hasText is  typeof part.text === 'string'
TextPart(t)      == [type |-> "text", hasText |-> TRUE, text |-> t]
ReasoningPart(t) == [type |-> "reasoning", hasText |-> TRUE, text |-> t]
ToolPart         == [type |-> "tool-invocation", hasText |-> FALSE, text |-> ""]

\* the parts field of a message: an array of parts, or something else
PartsArray(items) == [isArray |-> TRUE, items |-> items]
PartsNotArray     == [isArray |-> FALSE, items |-> <<>>]

\* meta.fileSize when the field is absent
NoSize == -1

\* message.metadata; NoMeta is a message without metadata
Meta(name, type, size, content) ==
  [fileName |-> name, fileType |-> type, fileSize |-> size, fileContent |-> content]
NoMeta == Meta("", "", NoSize, "")

Message(role, parts, meta) == [role |-> role, parts |-> parts, metadata |-> meta]

\* function hasTextPart(p)
hasTextPart(p) == p.hasText

\* function extractTextFromParts(maybeParts)
RECURSIVE JoinTextParts(_)
JoinTextParts(items) ==
  IF items = <<>> THEN ""
  ELSE (IF Head(items).type = "text" /\ hasTextPart(Head(items))
        THEN Head(items).text ELSE "") \o JoinTextParts(Tail(items))

\* extractTextFromParts reading the first part only
extractTextFromParts_FirstPartOnly(maybeParts) ==
  IF ~maybeParts.isArray \/ maybeParts.items = <<>> THEN ""
  ELSE JoinTextParts(<< Head(maybeParts.items) >>)

extractTextFromParts(maybeParts) ==
  IF ~maybeParts.isArray THEN "" ELSE JoinTextParts(maybeParts.items)

(* ------------------- the decisions of POST, as functions --------------- *)

\* latestUserMessage taking the first user message (shift for pop)
latestUserMessage_First(msgs) ==
  LET us == {i \in 1..Len(msgs) : msgs[i].role = "user"}
  IN IF us = {} THEN 0 ELSE CHOOSE i \in us : \A j \in us : i <= j

\* messages.filter((msg) => msg.role === 'user').pop(), as an index; 0 is undefined
latestUserMessage(msgs) ==
  LET us == {i \in 1..Len(msgs) : msgs[i].role = "user"}
  IN IF us = {} THEN 0 ELSE CHOOSE i \in us : \A j \in us : j <= i

\* textParts reading the parts of a user message that does not exist
textParts_Undefined(msgs) ==
  IF latestUserMessage(msgs) = 0 THEN "undefined"
  ELSE extractTextFromParts(msgs[latestUserMessage(msgs)].parts)

\* the text handed to the classifier ('' when there is no user message)
textParts(msgs) ==
  IF latestUserMessage(msgs) = 0 THEN ""
  ELSE extractTextFromParts(msgs[latestUserMessage(msgs)].parts)

\* fileMessageIndex scanning from the oldest message to the newest
fileMessageIndex_Oldest(msgs) ==
  LET fs == {i \in 1..Len(msgs) : msgs[i].metadata.fileContent # ""}
  IN IF fs = {} THEN 0 ELSE CHOOSE i \in fs : \A j \in fs : i <= j

\* the newest-to-oldest scan for m.metadata.fileContent; 0 is "not found"
fileMessageIndex(msgs) ==
  LET fs == {i \in 1..Len(msgs) : msgs[i].metadata.fileContent # ""}
  IN IF fs = {} THEN 0 ELSE CHOOSE i \in fs : \A j \in fs : j <= i

\* meta.fileName || 'uploaded-file'
fileName(meta) == IF meta.fileName # "" THEN meta.fileName ELSE "uploaded-file"

\* meta.fileType || 'unknown'
mime(meta) == IF meta.fileType # "" THEN meta.fileType ELSE "unknown"

\* the divisor of the size in sizeKB
BytesPerKB == 1024

\* Math.round(x / 1024) for x >= 0: halves round up
RoundKB(x) == (2 * x + BytesPerKB) \div (2 * BytesPerKB)

\* meta.fileSize ? Math.round(meta.fileSize / 1024) : 'unknown', as interpolated
sizeKB(meta) ==
  IF meta.fileSize # NoSize /\ meta.fileSize # 0
  THEN ToString(RoundKB(meta.fileSize)) ELSE "unknown"

\* AckMarker without the quotes around the file name
AckMarker_Unquoted(name) == "Received " \o name

\* `Received "${fileName}"`
AckMarker(name) == "Received \"" \o name \o "\""

\* ackExistsAfter scanning the whole history (messages.some)
ackExistsAfter_WholeHistory(msgs, idx, name) ==
  \E i \in 1..Len(msgs) :
    /\ msgs[i].role = "assistant"
    /\ msgs[i].parts.isArray
    /\ \E k \in 1..Len(msgs[i].parts.items) :
         /\ hasTextPart(msgs[i].parts.items[k])
         /\ Includes(msgs[i].parts.items[k].text, AckMarker(name))

\* messages.slice(fileMessageIndex + 1).some(...)
ackExistsAfter(msgs, idx, name) ==
  \E i \in (idx + 1)..Len(msgs) :
    /\ msgs[i].role = "assistant"
    /\ msgs[i].parts.isArray
    /\ \E k \in 1..Len(msgs[i].parts.items) :
         /\ hasTextPart(msgs[i].parts.items[k])
         /\ Includes(msgs[i].parts.items[k].text, AckMarker(name))

\* latestUserAfter slicing at the file message itself (slice(fileMessageIndex))
latestUserAfter_Inclusive(msgs, idx) ==
  LET us == {i \in idx..Len(msgs) : msgs[i].role = "user"}
  IN IF us = {} THEN 0 ELSE CHOOSE i \in us : \A j \in us : j <= i

\* latestUserAfter taking the first user message after the file message
latestUserAfter_First(msgs, idx) ==
  LET us == {i \in (idx + 1)..Len(msgs) : msgs[i].role = "user"}
  IN IF us = {} THEN 0 ELSE CHOOSE i \in us : \A j \in us : i <= j

\* the last user message after the file message, as an index; 0 is null
latestUserAfter(msgs, idx) ==
  LET us == {i \in (idx + 1)..Len(msgs) : msgs[i].role = "user"}
  IN IF us = {} THEN 0 ELSE CHOOSE i \in us : \A j \in us : j <= i

\* latestUserText, the text the analysis pattern is tested on
latestUserText(msgs, idx) ==
  IF latestUserAfter(msgs, idx) = 0 THEN ""
  ELSE extractTextFromParts(msgs[latestUserAfter(msgs, idx)].parts)

\* wantsAnalyzeNow and wantsAnalyze (the same test, computed twice in POST)
wantsAnalyze(msgs, idx) == AnalyzePattern(latestUserText(msgs, idx))

\* sendsAck without the test for a user message after the file message
sendsAck_NoFollowUpTest(msgs, idx) ==
  /\ ~ackExistsAfter(msgs, idx, fileName(msgs[idx].metadata))
  /\ ~wantsAnalyze(msgs, idx)

\* sendsAck without the ackExistsAfter test
sendsAck_IgnoringAck(msgs, idx) ==
  /\ ~wantsAnalyze(msgs, idx)
  /\ latestUserAfter(msgs, idx) = 0

\* the condition of the acknowledgment return
\*   !ackExistsAfter && !wantsAnalyzeNow && !latestUserAfter
sendsAck(msgs, idx) ==
  /\ ~ackExistsAfter(msgs, idx, fileName(msgs[idx].metadata))
  /\ ~wantsAnalyze(msgs, idx)
  /\ latestUserAfter(msgs, idx) = 0

\* the delta of the acknowledgment message
AckText(meta) ==
  "Received \"" \o fileName(meta) \o "\" (" \o sizeKB(meta) \o " KB, " \o mime(meta)
    \o "). I can (1) summarize text, (2) run OCR, (3) analyze images, or (4) extract tables. What would you like me to do with this file?"

\* moderationResult.denialMessage || "Your message violates ..."
DefaultDenial == "Your message violates our guidelines. I can't answer that."
\* DenialText that ignores the classifier's message
DenialText_AlwaysDefault(denialMessage) == DefaultDenial


DenialText(denialMessage) ==
  IF denialMessage # "" THEN denialMessage ELSE DefaultDenial

(* --------------------------- response streams -------------------------- *)

EvStart           == [type |-> "start"]
EvTextStart(id)   == [type |-> "text-start", id |-> id]
EvTextDelta(id,d) == [type |-> "text-delta", id |-> id, delta |-> d]
EvTextEnd(id)     == [type |-> "text-end", id |-> id]
EvFinish          == [type |-> "finish"]

\* the writer.write calls of the moderation denial
ModerationDenialStream(text) ==
  << EvStart, EvTextStart("moderation-denial-text"),
     EvTextDelta("moderation-denial-text", text),
     EvTextEnd("moderation-denial-text"), EvFinish >>

\* the writer.write calls of the acknowledgment prompt
FileReceivedStream(text) ==
  << EvStart, EvTextStart("file-received-text"),
     EvTextDelta("file-received-text", text),
     EvTextEnd("file-received-text"), EvFinish >>

\* FileAnalysisStream closing the text block under another id
FileAnalysisStream_WrongEndId(text) ==
  << EvStart, EvTextStart("file-analysis-text"),
     EvTextDelta("file-analysis-text", text),
     EvTextEnd("file-received-text"), EvFinish >>

\* the writer.write calls of the analysis result
FileAnalysisStream(text) ==
  << EvStart, EvTextStart("file-analysis-text"),
     EvTextDelta("file-analysis-text", text),
     EvTextEnd("file-analysis-text"), EvFinish >>

(* ------------------------ content analyzer dispatch -------------------- *)

\* base64WithPrefix.includes(',') ? base64WithPrefix.split(',')[1] : base64WithPrefix
\* (split(',')[1] is the piece between the first comma and the next one)
base64Of(content) ==
  IF ~Includes(content, ",") THEN content
  ELSE LET first == CHOOSE i \in 1..Len(content) :
                      /\ CharAt(content, i) = ","
                      /\ \A k \in 1..(i - 1) : CharAt(content, k) # ","
           rest  == SubSeq(content, first + 1, Len(content))
       IN IF ~Includes(rest, ",") THEN rest
          ELSE SubSeq(rest, 1, (CHOOSE i \in 1..Len(rest) :
                                  /\ CharAt(rest, i) = ","
                                  /\ \A k \in 1..(i - 1) : CharAt(rest, k) # ",") - 1)

\* the base64 alphabet; the value of a character is its position minus one
Base64Chars == "ABCDEFGHIJKLMNOPQRSTUVWXYZabcdefghijklmnopqrstuvwxyz0123456789+/"
Base64Value(c) == (CHOOSE i \in 1..64 : CharAt(Base64Chars, i) = c) - 1

\* the bytes of a run of base64 characters: 4 characters give 3 bytes, a
\* rest of 3 gives 2 bytes, a rest of 2 gives 1 byte
RECURSIVE Base64Bytes(_)
Base64Bytes(s) ==
  IF Len(s) < 2 THEN <<>>
  ELSE LET a == Base64Value(CharAt(s, 1))
           b == Base64Value(CharAt(s, 2))
           c == Base64Value(CharAt(s, 3))
           d == Base64Value(CharAt(s, 4))
       IN IF Len(s) = 2 THEN << a * 4 + b \div 16 >>
          ELSE IF Len(s) = 3 THEN << a * 4 + b \div 16, (b % 16) * 16 + c \div 4 >>
          ELSE << a * 4 + b \div 16, (b % 16) * 16 + c \div 4, (c % 4) * 64 + d >>
                 \o Base64Bytes(SubSeq(s, 5, Len(s)))

\* the characters of s that are in the base64 alphabet
RECURSIVE Base64Only(_)
Base64Only(s) ==
  IF s = "" THEN ""
  ELSE (IF Includes(Base64Chars, Head(s)) THEN Head(s) ELSE "") \o Base64Only(Tail(s))

\* Buffer.from(base64, 'base64'): decoding stops at the padding and skips
\* the characters that are not in the alphabet
BufferFrom(base64) ==
  LET stop == IF Includes(base64, "=")
              THEN (CHOOSE i \in 1..Len(base64) :
                      /\ CharAt(base64, i) = "="
                      /\ \A k \in 1..(i - 1) : CharAt(base64, k) # "=") - 1
              ELSE Len(base64)
  IN Base64Bytes(Base64Only(SubSeq(base64, 1, stop)))

\* the printable ASCII characters, codes 32 to 126 (code 96, which a string
\* of this notation cannot hold, is written "?")
AsciiChars ==
  " !\"#$%&'()*+,-./0123456789:;<=>?@ABCDEFGHIJKLMNOPQRSTUVWXYZ[\\]^_?abcdefghijklmnopqrstuvwxyz{|}~"

\* buffer.toString('utf8') on bytes: ASCII bytes give their character, a
\* line feed gives "\n", and any other byte stands for a character that is
\* not white space (U+FFFD for a malformed sequence), written "?"
RECURSIVE BufferToString(_)
BufferToString(bytes) ==
  IF bytes = <<>> THEN ""
  ELSE (IF Head(bytes) >= 32 /\ Head(bytes) <= 126
        THEN CharAt(AsciiChars, Head(bytes) - 31)
        ELSE IF Head(bytes) = 10 THEN "\n" ELSE "?")
       \o BufferToString(Tail(bytes))

ImageExtensions == {".png", ".jpg", ".jpeg", ".webp"}

\* Branch testing the image rule before the PDF rule
Branch_ImageFirst(meta) ==
  LET mimeLC == ToLowerCase(mime(meta))
      nameLC == ToLowerCase(fileName(meta))
  IN IF StartsWith(mimeLC, "image/")
        \/ \E ext \in ImageExtensions : EndsWith(nameLC, ext) THEN "image"
     ELSE IF mimeLC = "application/pdf" \/ EndsWith(nameLC, ".pdf") THEN "pdf"
     ELSE IF mimeLC = "text/plain" \/ EndsWith(nameLC, ".txt") \/ mimeLC = "text/csv"
          THEN "text"
     ELSE "unsupported"

\* the if / else if chain "Branch by MIME"
Branch(meta) ==
  LET mimeLC == ToLowerCase(mime(meta))
      nameLC == ToLowerCase(fileName(meta))
  IN IF mimeLC = "application/pdf" \/ EndsWith(nameLC, ".pdf") THEN "pdf"
     ELSE IF StartsWith(mimeLC, "image/")
             \/ \E ext \in ImageExtensions : EndsWith(nameLC, ext) THEN "image"
     ELSE IF mimeLC = "text/plain" \/ EndsWith(nameLC, ".txt") \/ mimeLC = "text/csv"
          THEN "text"
     ELSE "unsupported"

\* the else branch of the chain
UnsupportedText(meta) ==
  "I don't have a direct extractor for files of type " \o mime(meta)
    \o ". If this is a PDF use the PDF channel; otherwise you can paste the text or convert to txt."

\* const CHUNK_CHARS = 3000
CHUNK_CHARS == 3000

\* FullText without the trim
FullText_Untrimmed(dataText) == dataText

\* const fullText = (data && data.text) ? String(data.text).trim() : ''
FullText(dataText) == IF dataText # "" THEN Trim(dataText) ELSE ""

\* the chunks loop: the chunks pushed from offset i on
RECURSIVE ChunksFrom(_, _)
ChunksFrom(i, fullText) ==
  IF i < Len(fullText)
  THEN << Slice(fullText, i, i + CHUNK_CHARS) >> \o ChunksFrom(i + CHUNK_CHARS, fullText)
  ELSE << >>

\* Chunks slicing to CHUNK_CHARS instead of i + CHUNK_CHARS
Chunks_SliceToChunkChars(fullText) ==
  [k \in 1..((Len(fullText) + CHUNK_CHARS - 1) \div CHUNK_CHARS) |->
     Slice(fullText, (k - 1) * CHUNK_CHARS, CHUNK_CHARS)]

\* const chunks, after the loop
Chunks(fullText) == ChunksFrom(0, fullText)

\* ChunkCount without the chunk that is shorter than CHUNK_CHARS
ChunkCount_Floor(i, len) == (len - i) \div CHUNK_CHARS

\* the chunks loop: the number of chunks pushed for a text of length len
RECURSIVE ChunkCount(_, _)
ChunkCount(i, len) == IF i < len THEN 1 + ChunkCount(i + CHUNK_CHARS, len) ELSE 0

\* Array.prototype.join
RECURSIVE Join(_, _)
Join(strs, sep) ==
  IF strs = <<>> THEN ""
  ELSE IF Len(strs) = 1 THEN strs[1]
  ELSE strs[1] \o sep \o Join(Tail(strs), sep)

\* content.map((c) => c.text || c.description || '').filter(Boolean)
RECURSIVE BlockTexts(_)
BlockTexts(content) ==
  IF content = <<>> THEN <<>>
  ELSE LET c == Head(content)
           t == IF c.text # "" THEN c.text ELSE c.description
       IN (IF t # "" THEN <<t>> ELSE <<>>) \o BlockTexts(Tail(content))

\* content.map((c) => c.text || '')
RECURSIVE BlockTextOnly(_)
BlockTextOnly(content) ==
  IF content = <<>> THEN <<>> ELSE <<Head(content).text>> \o BlockTextOnly(Tail(content))

\* the body of an OpenAI response; json is JSON.stringify(j)
Block(text, description) == [text |-> text, description |-> description]
RespOk(outputText, hasContent, content, json) ==
  [ok |-> TRUE, errText |-> "", output_text |-> outputText,
   hasContent |-> hasContent, content |-> content, json |-> json]
RespNotOk(errText) ==
  [ok |-> FALSE, errText |-> errText, output_text |-> "",
   hasContent |-> FALSE, content |-> <<>>, json |-> ""]

\* the three returns after  const j = await resp.json()  in analyzePDFBuffer
PdfResultText(name, j) ==
  IF j.output_text # "" THEN "OpenAI analysis for \"" \o name \o "\":\n\n" \o j.output_text
  ELSE IF j.hasContent
       THEN "OpenAI analysis for \"" \o name \o "\":\n\n" \o Join(BlockTexts(j.content), "\n")
  ELSE "OpenAI analysis for \"" \o name \o "\":\n\n" \o j.json

\* `OpenAI error while analyzing "${filename}": ${errText}`
AnalyzeErrorText(name, errText) ==
  "OpenAI error while analyzing \"" \o name \o "\": " \o errText

\* `OpenAI error while summarizing "${filename}": ${errText}`
SummarizeErrorText(name, errText) ==
  "OpenAI error while summarizing \"" \o name \o "\": " \o errText

\* `Failed to analyze "${filename}": ${String(err)}`
FailedText(name, err) == "Failed to analyze \"" \o name \o "\": " \o err

\* `Could not extract text from "${filename}". ...`
NoTextText(name) ==
  "Could not extract text from \"" \o name
    \o "\". The PDF may be a scanned image; try using \"Run OCR\" instead."

\* `Cannot analyze "${filename}" because OpenAI credentials are missing.`
NoKeyText(name) ==
  "Cannot analyze \"" \o name \o "\" because OpenAI credentials are missing."

\* j?.output_text || (j?.output?.[0]?.content?.map(...)?.join('\n')) || JSON.stringify(j)
FlatOrBlocks(j) ==
  IF j.output_text # "" THEN j.output_text
  ELSE IF j.hasContent /\ Join(BlockTextOnly(j.content), "\n") # ""
       THEN Join(BlockTextOnly(j.content), "\n")
  ELSE j.json

\* chunkSummaries.push(...) for chunk number n (1-based, idx + 1 in the code)
ChunkSummary(n, resp) ==
  IF ~resp.ok THEN "(Chunk " \o ToString(n) \o " summary failed: " \o resp.errText \o ")"
  ELSE "--- chunk " \o ToString(n) \o " ---\n" \o FlatOrBlocks(resp)

\* combinedText and the return of analyzeImageBuffer
ImageResultText(name, j) ==
  LET combinedText == IF j.hasContent THEN Join(BlockTexts(j.content), "\n") ELSE ""
  IN "OpenAI image OCR for \"" \o name \o "\":\n\n"
       \o (IF combinedText # "" THEN combinedText
           ELSE IF j.output_text # "" THEN j.output_text ELSE j.json)

\* analysisText of the plain text / csv branch
TextResultText(name, resp) ==
  IF ~resp.ok THEN AnalyzeErrorText(name, resp.errText) ELSE FlatOrBlocks(resp)

(* ------------------------------- inputs -------------------------------- *)

\* the text the client sends with an upload
UploadText(name) == "I uploaded a file named \"" \o name \o "\". Please analyze it."

\* attachments: a PDF, an image, an empty text file, and a payload with no
\* advisory fields at all
PdfFile  == Meta("a.pdf", "application/pdf", 1536, "data:application/pdf;base64,JVBERg==")
PngFile  == Meta("b.PNG", "image/png", 511, "data:image/png;base64,iVBO")
TxtFile  == Meta("c.txt", "text/plain", 0, "data:text/plain;base64,")
BareFile == Meta("", "", NoSize, "aGk=")

\* attachments whose advisory fields disagree or name no known type: a PDF
\* name with an image MIME, a PDF MIME with a text name, an image name with
\* a text MIME, a CSV, a markdown text, and white space of unknown type
ScanFile  == Meta("scan.PDF", "image/png", 2048, "data:image/png;base64,JVBERg==")
NotesFile == Meta("notes.txt", "Application/PDF", 100, "data:application/pdf;base64,aGk=")
PhotoFile == Meta("photo.jpeg", "text/csv", 3000, "data:text/csv;base64,iVBO")
CsvFile   == Meta("data.csv", "text/csv", 3, "data:text/csv;base64,YSxi")
MdFile    == Meta("notes.md", "text/markdown", 2, "data:text/markdown;base64,aGk=")
BlankFile == Meta("blank.bin", "application/octet-stream", 3,
                  "data:application/octet-stream;base64,ICAg")

\* a text attachment whose payload has no data: prefix and holds a comma
CommaFile == Meta("list.txt", "text/plain", 5, "aGVs,bG8=")

\* what the user types into the form
UserTexts == {"hello", "Please ANALYZE it"}

\* the user turns a request can add to the history
UserTurns ==
  {Message("user", PartsArray(<<TextPart(t)>>), NoMeta) : t \in UserTexts}
  \cup {Message("user", PartsArray(<<TextPart(UploadText(m.fileName))>>), m) :
          m \in {PdfFile, PngFile, TxtFile}}
  \cup {Message("user", PartsNotArray, BareFile)}

\* the welcome message the client injects into an empty conversation
WelcomeTurn == Message("assistant", PartsArray(<<TextPart("Welcome!")>>), NoMeta)

\* the histories a conversation starts from: a cleared one, a new one, and
\* a stored one whose upload got no response before the user went on
SeedHistories ==
  { <<>>, <<WelcomeTurn>>,
    << Message("user", PartsArray(<<TextPart(UploadText(TxtFile.fileName))>>), TxtFile),
       Message("user", PartsArray(<<TextPart("hello")>>), NoMeta) >> }

\* the turns of a request body
UploadTurn(m) == Message("user", PartsArray(<<TextPart(UploadText(m.fileName))>>), m)
UserTurn(t)   == Message("user", PartsArray(<<TextPart(t)>>), NoMeta)
AckTurn(m)    == Message("assistant", PartsArray(<<TextPart(AckText(m))>>), NoMeta)

\* request bodies that ask for the analysis of an acknowledged attachment
DispatchHistories ==
  { << UploadTurn(m), AckTurn(m), UserTurn("Please ANALYZE it") >> :
      m \in {PdfFile, PngFile, TxtFile, BareFile, ScanFile, NotesFile, PhotoFile,
              CsvFile, MdFile, BlankFile, CommaFile} }

\* request bodies with two attachments, with a turn whose metadata has no
\* payload after the attachment, and with no attachment at all
AnchorHistories ==
  { << UploadTurn(PdfFile), UploadTurn(PngFile) >>,
    << UploadTurn(PdfFile), UploadTurn(PngFile), UserTurn("Please ANALYZE it") >>,
    << UploadTurn(PngFile),
       Message("user", PartsArray(<<TextPart("Please ANALYZE it")>>),
               Meta("later.pdf", "application/pdf", 10, "")) >>,
    << WelcomeTurn, UserTurn("Please ANALYZE it") >>,
    << UserTurn("hello") >> }

\* request bodies that end after the attachment turn and one assistant
\* turn (or before it): the marker in a text part after a reasoning part, in
\* a reasoning part only, in no part, for another file, in a turn before the
\* attachment, and in the attachment turn itself
AckHistories ==
  { << UploadTurn(PdfFile),
       Message("assistant",
               PartsArray(<<ReasoningPart("The user sent a file."),
                            TextPart(AckText(PdfFile))>>), NoMeta) >>,
    << UploadTurn(PdfFile),
       Message("assistant",
               PartsArray(<<ReasoningPart("I will answer: Received \"a.pdf\" and a menu."),
                            TextPart("What a nice file.")>>), NoMeta) >>,
    << UploadTurn(PdfFile), Message("assistant", PartsArray(<<ToolPart>>), NoMeta) >>,
    << UploadTurn(PdfFile), AckTurn(PngFile) >>,
    << AckTurn(PdfFile), UploadTurn(PdfFile) >>,
    << Message("assistant", PartsArray(<<TextPart(AckText(PdfFile))>>), PdfFile) >> }

\* follow-up texts with and without the words of the analysis pattern
IntentTexts ==
  { "", "hello", "3", "30", "option 3.", "x_3", "Run OCR", "ocrs", "ocr-scan",
    "Analysis please", "ANALYZING", "psychoanalyze", "analyse" }

\* request bodies with an acknowledged attachment and one follow-up text,
\* and one with no follow-up at all
IntentHistories ==
  { << UploadTurn(BlankFile), AckTurn(BlankFile), UserTurn(t) >> : t \in IntentTexts }
  \cup { << UploadTurn(BlankFile), AckTurn(BlankFile) >> }

\* the parts of a last user turn: text split over parts around a reasoning
\* and a tool part, a pattern word in a reasoning part only, text parts in
\* the other order, a pattern word split over two parts, a tool part only
MixedParts ==
  { PartsArray(<< TextPart("Please "), ReasoningPart("ocr 3"), ToolPart,
                  TextPart("analy"), TextPart("ze it") >>),
    PartsArray(<< ReasoningPart("Please analyze it"), TextPart("hello") >>),
    PartsArray(<< TextPart("yze"), TextPart("anal") >>),
    PartsArray(<< TextPart("oc"), TextPart("r") >>),
    PartsArray(<< ToolPart >>),
    PartsNotArray }

\* request bodies with an acknowledged attachment and such a last user turn
PartsHistories ==
  { << UploadTurn(BlankFile), AckTurn(BlankFile), Message("user", parts, NoMeta) >> :
      parts \in MixedParts }

\* request bodies that end with a new attachment: after the same file was
\* acknowledged, after an analysis request for an older file, and after
\* another file was acknowledged
SupersededHistories ==
  { << UploadTurn(PdfFile), AckTurn(PdfFile), UploadTurn(PdfFile) >>,
    << UploadTurn(PdfFile), UserTurn("Please ANALYZE it"), UploadTurn(PngFile) >>,
    << UploadTurn(PngFile), AckTurn(PngFile), UploadTurn(CsvFile) >> }

\* the request bodies POSTed one by one: req.json() accepts any of them
RequestHistories ==
  DispatchHistories \cup AnchorHistories \cup AckHistories \cup IntentHistories
    \cup PartsHistories \cup SupersededHistories

\* the verdicts of the moderation classifier: {flagged, denialMessage?}
Verdict(flagged, denialMessage) == [flagged |-> flagged, denialMessage |-> denialMessage]
NoVerdict == [flagged |-> FALSE, denialMessage |-> "not called"]
Verdicts == {Verdict(FALSE, ""), Verdict(TRUE, ""), Verdict(TRUE, "Denied by policy.")}

\* the answers of the OpenAI responses endpoint
BackendResponses ==
  { RespOk("Summary.", FALSE, <<>>, "{\"output_text\":\"Summary.\"}"),
    RespOk("", TRUE, <<Block("Block text.", ""), Block("", "A description.")>>,
           "{\"output\":[]}"),
    RespOk("", FALSE, <<>>, "{\"id\":\"r1\"}"),
    RespNotOk("quota exceeded") }

\* the answers to a chunk summary: a summary, or a status that is not ok
ChunkResponses == {resp \in BackendResponses : resp.output_text # "" \/ ~resp.ok}

\* String(err) of a rejected fetch and of a pdf-parse failure
NetworkError == "TypeError: fetch failed"
ParseError   == "Error: Invalid PDF structure"

\* n copies of s
RECURSIVE Repeat(_, _)
Repeat(s, n) ==
  IF n = 0 THEN ""
  ELSE IF n % 2 = 0 THEN LET half == Repeat(s, n \div 2) IN half \o half
  ELSE s \o Repeat(s, n - 1)

\* a text of n letters
Letters(n) == SubSeq(Repeat("abcdefg", n \div 7 + 1), 1, n)

\* data.text, the text pdf-parse extracts: none, white space only, and
\* texts that are 3000, 3001, 6000 and 6001 characters long once the white
\* space around them is trimmed
PdfTexts ==
  { "", " \n \n", " " \o Letters(CHUNK_CHARS) \o "\n\n", Letters(CHUNK_CHARS + 1),
    Letters(2 * CHUNK_CHARS) \o "\n", "\n" \o Letters(2 * CHUNK_CHARS + 1) }

\* the lengths of the trimmed text pdf-parse extracts
PdfTextLens == {Len(FullText(text)) : text \in PdfTexts}

\* the texts the language model answers with
LlmTexts == {"Sure."}

(* -------------------------------- state -------------------------------- *)

VARIABLES
  messages,          \* the conversation history, the body of each request
  pc,                \* where the handler of the request in flight stands
  moderationResult,  \* the verdict of this request, NoVerdict before it
  an,                \* the analysis in flight (analyzePDFBuffer's locals)
  events,            \* the events written to the response stream
  path,              \* the return statement the request took
  trace,             \* the stages entered, the external calls made and the
                     \* backend calls that failed, in order
  ackEmitted,        \* per anchor index, the acknowledgment prompts emitted
  discards,          \* responses the client dropped instead of appending
  steps              \* the steps the completion engine has run in this request

vars == << messages, pc, moderationResult, an, events, path, trace,
           ackEmitted, discards, steps >>

NoAn ==
  [branch |-> "none", name |-> "", len |-> 0, chunks |-> <<>>, idx |-> 0,
   chunkSummaries |-> <<>>]

Call(op, arg) == [op |-> op, arg |-> arg]

\* the backend call that was last issued failed: fetch rejected, or the
\* response is not ok and errText is its body
Fails(tr, err) == Append(tr, Call("failed", err))

\* the trace after a backend response: a response that is not ok is a failure
Answered(tr, resp) == IF resp.ok THEN tr ELSE Fails(tr, resp.errText)

Init ==
  /\ messages \in SeedHistories
  /\ pc = "idle"
  /\ moderationResult = NoVerdict
  /\ an = NoAn
  /\ events = <<>>
  /\ path = "none"
  /\ trace = <<>>
  /\ ackEmitted = [i \in 1..MaxTurns |-> 0]
  /\ discards = 0
  /\ steps = 0

(* ------------------------------ the client ----------------------------- *)

\* sendMessage: append a user turn and POST the history
SendMessage ==
  /\ pc = "idle"
  /\ Len(messages) + 1 <= MaxTurns
  /\ \E turn \in UserTurns : messages' = Append(messages, turn)
  /\ pc' = "start"
  /\ UNCHANGED << moderationResult, an, events, path, trace, ackEmitted,
                  discards, steps >>

\* a POST of the history as it stands
Submit ==
  /\ pc = "idle"
  /\ pc' = "start"
  /\ UNCHANGED << messages, moderationResult, an, events, path, trace,
                  ackEmitted, discards, steps >>

\* the text of the assistant message the client builds from the stream
RECURSIVE StreamText(_)
StreamText(evs) ==
  IF evs = <<>> THEN ""
  ELSE (IF Head(evs).type = "text-delta" THEN Head(evs).delta ELSE "")
         \o StreamText(Tail(evs))

\* the client appends the streamed response as an assistant turn (as long
\* as the conversation stays within MaxTurns); the request and everything
\* local to it are gone
Deliver ==
  /\ pc = "done"
  /\ Len(messages) + 1 <= MaxTurns
  /\ messages' = Append(messages,
        Message("assistant", PartsArray(<<TextPart(StreamText(events))>>), NoMeta))
  /\ pc' = "idle"
  /\ moderationResult' = NoVerdict /\ an' = NoAn /\ events' = <<>>
  /\ path' = "none" /\ trace' = <<>>
  /\ UNCHANGED << ackEmitted, discards, steps >>

\* the client drops the response (stop, reload) and keeps the old history
Discard ==
  /\ pc = "done"
  /\ discards < MaxDiscards
  /\ discards' = discards + 1
  /\ pc' = "idle"
  /\ moderationResult' = NoVerdict /\ an' = NoAn /\ events' = <<>>
  /\ path' = "none" /\ trace' = <<>>
  /\ UNCHANGED << messages, ackEmitted, steps >>

\* the request was rejected: the client shows an error and appends nothing
Failed ==
  /\ pc = "fault"
  /\ pc' = "idle"
  /\ moderationResult' = NoVerdict /\ an' = NoAn /\ events' = <<>>
  /\ path' = "none" /\ trace' = <<>>
  /\ UNCHANGED << messages, ackEmitted, discards, steps >>

(* ------------------------------ POST ----------------------------------- *)

\* return createUIMessageStreamResponse({ stream }) with the analysis text
FinishAnalysis(tr, text) ==
  /\ pc' = "done"
  /\ path' = "analysis"
  /\ events' = FileAnalysisStream(text)
  /\ trace' = tr
  /\ an' = NoAn
  /\ UNCHANGED ackEmitted

\* an exception leaves POST: no response stream is produced
Reject(tr) ==
  /\ pc' = "fault"
  /\ path' = "fault"
  /\ events' = <<>>
  /\ trace' = tr
  /\ an' = NoAn
  /\ UNCHANGED ackEmitted

\* the options of the streamText call with only the web search tool
StreamTextOptions_OneTool ==
  [model |-> "MODEL", system |-> "SYSTEM_PROMPT", tools |-> {"webSearch"},
   stopWhen |-> 10, parallelToolCalls |-> FALSE]

\* the options of the streamText call: model, system, tools,
\* stopWhen: stepCountIs(10), providerOptions.openai.parallelToolCalls
StreamTextOptions ==
  [model |-> "MODEL", system |-> "SYSTEM_PROMPT",
   tools |-> {"webSearch", "vectorDatabaseSearch"},
   stopWhen |-> 10, parallelToolCalls |-> FALSE]

\* "Normal streaming LLM flow": the streamText call
CallEngine(tr) ==
  /\ pc' = "engine"
  /\ path' = "completion"
  /\ events' = <<>>
  /\ trace' = Append(tr, Call("streamText", StreamTextOptions))
  /\ an' = NoAn
  /\ UNCHANGED ackEmitted

\* if (wantsAnalyze && meta.fileContent): decode and branch by MIME, up to
\* the first await of the branch taken; apiKey is whether
\* process.env.OPENAI_API_KEY is set when analyzeImageBuffer reads it
Dispatch(tr0, meta, apiKey) ==
  LET base64 == base64Of(meta.fileContent)
      buffer == BufferFrom(base64)
      name   == fileName(meta)
      tr     == Append(tr0, Call("dispatch", Branch(meta)))
  IN CASE Branch(meta) = "pdf" ->
            /\ pc' = "pdfParse"
            /\ an' = [NoAn EXCEPT !.branch = "pdf", !.name = name]
            /\ trace' = tr \o << Call("analyzePDFBuffer", base64), Call("pdfParse", base64) >>
            /\ UNCHANGED << events, path, ackEmitted >>
       [] Branch(meta) = "image" ->
            \/ /\ ~apiKey
               /\ FinishAnalysis(Append(tr, Call("analyzeImageBuffer", base64)),
                                 NoKeyText(name))
            \/ /\ apiKey
               /\ pc' = "imageFetch"
               /\ an' = [NoAn EXCEPT !.branch = "image", !.name = name]
               /\ trace' = tr \o << Call("analyzeImageBuffer", base64),
                                    Call("fetch", "image") >>
               /\ UNCHANGED << events, path, ackEmitted >>
       [] Branch(meta) = "text" ->
            /\ pc' = "textFetch"
            /\ an' = [NoAn EXCEPT !.branch = "text", !.name = name]
            /\ trace' = tr \o << Call("toString", BufferToString(buffer)),
                                 Call("fetch", "text") >>
            /\ UNCHANGED << events, path, ackEmitted >>
       [] OTHER -> FinishAnalysis(tr, UnsupportedText(meta))

\* FileStage remembering across requests which attachments it has prompted
\* for, instead of scanning the history for the acknowledgment
FileStage_Remembering(tr) ==
  LET idx  == fileMessageIndex(messages)
      meta == messages[idx].metadata
      tr1  == Append(tr, Call("fileDetection", ""))
  IN IF idx = 0 THEN CallEngine(tr1)
     ELSE IF ackEmitted[idx] = 0 /\ sendsAck_IgnoringAck(messages, idx)
     THEN /\ pc' = "done"
          /\ path' = "ack"
          /\ events' = FileReceivedStream(AckText(meta))
          /\ trace' = tr1
          /\ an' = NoAn
          /\ ackEmitted' = [ackEmitted EXCEPT ![idx] = @ + 1]
     ELSE IF wantsAnalyze(messages, idx) /\ meta.fileContent # ""
     THEN \E apiKey \in BOOLEAN : Dispatch(tr1, meta, apiKey)
     ELSE CallEngine(tr1)

\* "File detection" and everything after it, up to the next await or return
FileStage(tr) ==
  LET idx  == fileMessageIndex(messages)
      meta == messages[idx].metadata
      tr1  == Append(tr, Call("fileDetection", ""))
  IN IF idx = 0 THEN CallEngine(tr1)
     ELSE IF sendsAck(messages, idx)
     THEN /\ pc' = "done"
          /\ path' = "ack"
          /\ events' = FileReceivedStream(AckText(meta))
          /\ trace' = tr1
          /\ an' = NoAn
          /\ ackEmitted' = [ackEmitted EXCEPT ![idx] = @ + 1]
     ELSE IF wantsAnalyze(messages, idx) /\ meta.fileContent # ""
     THEN \E apiKey \in BOOLEAN : Dispatch(tr1, meta, apiKey)
     ELSE CallEngine(tr1)

\* PostBegin calling the classifier without awaiting its verdict
PostBegin_NoAwait ==
  /\ pc = "start"
  /\ FileStage(IF textParts(messages) # ""
               THEN << Call("isContentFlagged", textParts(messages)) >> ELSE <<>>)
  /\ UNCHANGED << messages, moderationResult, discards, steps >>

\* POST up to its first await: the classifier is called on a non-empty text
\* of the latest user message, otherwise the handler goes on to the file stage
PostBegin ==
  /\ pc = "start"
  /\ IF textParts(messages) # ""
     THEN /\ pc' = "moderation"
          /\ trace' = << Call("isContentFlagged", textParts(messages)) >>
          /\ UNCHANGED << an, events, path, ackEmitted >>
     ELSE FileStage(<<>>)
  /\ UNCHANGED << messages, moderationResult, discards, steps >>

\* await isContentFlagged(textParts) returns a verdict
ModerationReturns ==
  /\ pc = "moderation"
  /\ \E v \in Verdicts :
       /\ moderationResult' = v
       /\ IF v.flagged
          THEN /\ pc' = "done"
               /\ path' = "denial"
               /\ events' = ModerationDenialStream(DenialText(v.denialMessage))
               /\ UNCHANGED << an, trace, ackEmitted >>
          ELSE FileStage(trace)
  /\ UNCHANGED << messages, discards, steps >>

(* --------------------------- analyzePDFBuffer -------------------------- *)

\* await pdfParse(buf) returns data.text: no text, a short text, or a text
\* to chunk; the trace records data.text and fullText
PdfParseReturns ==
  /\ pc = "pdfParse"
  /\ \E text \in PdfTexts :
       LET fullText == FullText(text)
           len      == Len(fullText)
           tr       == trace \o << Call("pdfText", text), Call("fullText", fullText) >>
       IN IF fullText = "" THEN FinishAnalysis(tr, NoTextText(an.name))
          ELSE IF len <= CHUNK_CHARS
          THEN /\ pc' = "pdfSingle"
               /\ an' = [an EXCEPT !.len = len]
               /\ trace' = Append(tr, Call("fetch", "pdf-single"))
               /\ UNCHANGED << events, path, ackEmitted >>
          ELSE /\ pc' = "pdfChunk"
               /\ an' = [an EXCEPT !.len = len, !.chunks = Chunks(fullText), !.idx = 1]
               /\ trace' = Append(tr, Call("fetch", "pdf-chunk"))
               /\ UNCHANGED << events, path, ackEmitted >>
  /\ UNCHANGED << messages, moderationResult, discards, steps >>

\* await pdfParse(buf) throws: caught by the catch of analyzePDFBuffer
PdfParseThrows ==
  /\ pc = "pdfParse"
  /\ FinishAnalysis(trace, FailedText(an.name, ParseError))
  /\ UNCHANGED << messages, moderationResult, discards, steps >>

\* the single-call summarization returns
PdfSingleReturns ==
  /\ pc = "pdfSingle"
  /\ \E resp \in BackendResponses :
       FinishAnalysis(Answered(trace, resp),
                      IF resp.ok THEN PdfResultText(an.name, resp)
                      ELSE AnalyzeErrorText(an.name, resp.errText))
  /\ UNCHANGED << messages, moderationResult, discards, steps >>

\* PdfChunkReturns ending the analysis at a chunk summary that is not ok
PdfChunkReturns_Aborting ==
  /\ pc = "pdfChunk"
  /\ \E resp \in ChunkResponses :
       IF ~resp.ok
       THEN /\ FinishAnalysis(Answered(trace, resp),
                               SummarizeErrorText(an.name, resp.errText))
            /\ UNCHANGED << messages, moderationResult, discards, steps >>
       ELSE /\ an' = [an EXCEPT !.chunkSummaries = Append(@, ChunkSummary(an.idx, resp)),
                                !.idx = IF an.idx < ChunkCount(0, an.len)
                                        THEN an.idx + 1 ELSE an.idx]
            /\ IF an.idx < ChunkCount(0, an.len)
               THEN /\ pc' = "pdfChunk"
                    /\ trace' = Append(trace, Call("fetch", "pdf-chunk"))
               ELSE /\ pc' = "pdfFinal"
                    /\ trace' = trace \o << Call("combined", Join(an'.chunkSummaries, "\n\n")),
                                            Call("fetch", "pdf-final") >>
            /\ UNCHANGED << messages, moderationResult, events, path, ackEmitted,
                            discards, steps >>

\* the summarization of chunk an.idx returns; the loop goes on to the next
\* chunk or, after the last one, joins the summaries (combined) and asks
\* for the final summary
PdfChunkReturns ==
  /\ pc = "pdfChunk"
  /\ \E resp \in ChunkResponses :
       /\ an' = [an EXCEPT !.chunkSummaries = Append(@, ChunkSummary(an.idx, resp)),
                           !.idx = IF an.idx < ChunkCount(0, an.len)
                                   THEN an.idx + 1 ELSE an.idx]
       /\ IF an.idx < ChunkCount(0, an.len)
          THEN /\ pc' = "pdfChunk"
               /\ trace' = Append(Answered(trace, resp), Call("fetch", "pdf-chunk"))
          ELSE /\ pc' = "pdfFinal"
               /\ trace' = Answered(trace, resp)
                              \o << Call("combined", Join(an'.chunkSummaries, "\n\n")),
                                    Call("fetch", "pdf-final") >>
  /\ UNCHANGED << messages, moderationResult, events, path, ackEmitted,
                  discards, steps >>

\* the final summary returns
PdfFinalReturns ==
  /\ pc = "pdfFinal"
  /\ \E resp \in BackendResponses :
       FinishAnalysis(Answered(trace, resp),
                      IF resp.ok THEN PdfResultText(an.name, resp)
                      ELSE SummarizeErrorText(an.name, resp.errText))
  /\ UNCHANGED << messages, moderationResult, discards, steps >>

\* a fetch of analyzePDFBuffer rejects: caught by its catch
PdfFetchThrows ==
  /\ pc \in {"pdfSingle", "pdfChunk", "pdfFinal"}
  /\ FinishAnalysis(Fails(trace, NetworkError), FailedText(an.name, NetworkError))
  /\ UNCHANGED << messages, moderationResult, discards, steps >>

(* -------------------------- analyzeImageBuffer ------------------------- *)

ImageFetchReturns ==
  /\ pc = "imageFetch"
  /\ \E resp \in BackendResponses :
       FinishAnalysis(Answered(trace, resp),
                      IF resp.ok THEN ImageResultText(an.name, resp)
                      ELSE AnalyzeErrorText(an.name, resp.errText))
  /\ UNCHANGED << messages, moderationResult, discards, steps >>

ImageFetchThrows ==
  /\ pc = "imageFetch"
  /\ FinishAnalysis(Fails(trace, NetworkError), FailedText(an.name, NetworkError))
  /\ UNCHANGED << messages, moderationResult, discards, steps >>

(* ------------------------ plain text / csv branch ---------------------- *)

TextFetchReturns ==
  /\ pc = "textFetch"
  /\ \E resp \in BackendResponses :
       FinishAnalysis(Answered(trace, resp), TextResultText(an.name, resp))
  /\ UNCHANGED << messages, moderationResult, discards, steps >>

\* the fetch of the plain-text branch rejects: POST has no try around it
TextFetchThrows ==
  /\ pc = "textFetch"
  /\ Reject(Fails(trace, NetworkError))
  /\ UNCHANGED << messages, moderationResult, discards, steps >>

(* ------------------------- the completion engine ----------------------- *)

\* result.toUIMessageStreamResponse: the model's answer in the stream protocol
EngineStream(text) ==
  << EvStart, EvTextStart("llm-text"), EvTextDelta("llm-text", text),
     EvTextEnd("llm-text"), EvFinish >>

\* a step of the run ends in a call of one of the tools (one call, the
\* calls are not parallel) and the step count is not reached: the tool runs
\* and the loop goes on to the next step
EngineToolStep ==
  /\ pc = "engine"
  /\ steps + 1 < StreamTextOptions.stopWhen
  /\ \E tool \in StreamTextOptions.tools : steps' = steps + 1
  /\ UNCHANGED << messages, pc, moderationResult, an, events, path, trace,
                  ackEmitted, discards >>

\* the last step of the run: the model answers without a tool call, or the
\* step count is reached; the response stream is complete
EngineStreams ==
  /\ pc = "engine"
  /\ steps + 1 <= StreamTextOptions.stopWhen
  /\ \E text \in LlmTexts : events' = EngineStream(text)
  /\ pc' = "done"
  /\ steps' = 0
  /\ UNCHANGED << messages, moderationResult, an, path, trace, ackEmitted,
                  discards >>

(* ---------------------------- specifications --------------------------- *)

Handler ==
  \/ PostBegin \/ ModerationReturns
  \/ PdfParseReturns \/ PdfParseThrows \/ PdfSingleReturns \/ PdfChunkReturns
  \/ PdfFinalReturns \/ PdfFetchThrows
  \/ ImageFetchReturns \/ ImageFetchThrows
  \/ TextFetchReturns \/ TextFetchThrows
  \/ EngineToolStep \/ EngineStreams

Next == SendMessage \/ Submit \/ Deliver \/ Discard \/ Failed \/ Handler

Spec == Init /\ [][Next]_vars

\* conversations in which every response is appended to the history
NextConv == SendMessage \/ Submit \/ Deliver \/ Failed \/ Handler

SpecConv == Init /\ [][NextConv]_vars

\* single requests: each body of RequestHistories is POSTed once
InitReq ==
  /\ messages \in RequestHistories
  /\ pc = "idle"
  /\ moderationResult = NoVerdict
  /\ an = NoAn
  /\ events = <<>>
  /\ path = "none"
  /\ trace = <<>>
  /\ ackEmitted = [i \in 1..MaxTurns |-> 0]
  /\ discards = 0
  /\ steps = 0

NextReq == Submit \/ Handler

SpecReq == InitReq /\ [][NextReq]_vars

\* the steps of analyzePDFBuffer
DocumentBranch ==
  \/ PdfParseReturns \/ PdfParseThrows \/ PdfSingleReturns \/ PdfChunkReturns
  \/ PdfFinalReturns \/ PdfFetchThrows

\* single requests in which every call awaited by analyzePDFBuffer settles:
\* the document branch is not left waiting forever
SpecReqFair == SpecReq /\ WF_vars(DocumentBranch)

(* ------------------- vocabulary of the properties ---------------------- *)

\* the request in flight has ended: with a response, or with a fault
Ended == pc \in {"done", "fault"}

\* the handler of the request in flight is past the moderation gate
PastModeration == pc \notin {"idle", "start", "moderation"}

\* an external call or stage of this request
Called(op) == \E i \in 1..Len(trace) : trace[i].op = op

\* an analyzer was called
AnalyzerCalled ==
  \E i \in 1..Len(trace) :
    trace[i].op \in {"analyzePDFBuffer", "analyzeImageBuffer", "pdfParse", "fetch"}

\* the turns that carry an attachment, and the anchor: the newest of them
AttachmentTurns(msgs) == {i \in 1..Len(msgs) : msgs[i].metadata.fileContent # ""}
HasAnchor(msgs) == AttachmentTurns(msgs) # {}
AnchorTurn(msgs) ==
  CHOOSE i \in AttachmentTurns(msgs) : \A j \in AttachmentTurns(msgs) : j <= i

\* the text of a turn: its text parts, concatenated
TurnText(turn) ==
  IF ~turn.parts.isArray THEN ""
  ELSE Join([k \in 1..Len(turn.parts.items) |->
               IF turn.parts.items[k].type = "text" THEN turn.parts.items[k].text ELSE ""],
            "")

\* some assistant turn after the anchor has a text part with the marker
Acknowledged(msgs) ==
  \E i \in (AnchorTurn(msgs) + 1)..Len(msgs) :
    /\ msgs[i].role = "assistant"
    /\ msgs[i].parts.isArray
    /\ \E k \in 1..Len(msgs[i].parts.items) :
         /\ msgs[i].parts.items[k].type = "text"
         /\ Includes(msgs[i].parts.items[k].text,
                     "Received \"" \o fileName(msgs[AnchorTurn(msgs)].metadata) \o "\"")

\* the user turns after the anchor, and whether the last of them asks for analysis
FollowUps(msgs) ==
  {i \in (AnchorTurn(msgs) + 1)..Len(msgs) : msgs[i].role = "user"}
LastFollowUp(msgs) ==
  CHOOSE i \in FollowUps(msgs) : \A j \in FollowUps(msgs) : j <= i
FollowUpIntent(msgs) ==
  FollowUps(msgs) # {} /\ AnalyzePattern(TurnText(msgs[LastFollowUp(msgs)]))

\* the user turns of the history, and the text of the most recent one
UserTurnsOf(msgs) == {i \in 1..Len(msgs) : msgs[i].role = "user"}
LastUserText(msgs) ==
  IF UserTurnsOf(msgs) = {} THEN ""
  ELSE TurnText(msgs[CHOOSE i \in UserTurnsOf(msgs) : \A j \in UserTurnsOf(msgs) : j <= i])

\* the history passes moderation: the classifier is not consulted, or it
\* answered "not flagged"
ModerationPassed ==
  \/ LastUserText(messages) = ""
  \/ moderationResult \in Verdicts /\ ~moderationResult.flagged

\* the stream holds the acknowledgment prompt
AckInStream ==
  \E i \in 1..Len(events) :
    events[i].type = "text-delta" /\ events[i].id = "file-received-text"

\* the shape of a synthesized message
IsSynthesized(evs) ==
  /\ Len(evs) = 5
  /\ evs[1] = [type |-> "start"]
  /\ evs[2].type = "text-start"
  /\ evs[3].type = "text-delta"
  /\ evs[4].type = "text-end"
  /\ evs[5] = [type |-> "finish"]
  /\ evs[3].id = evs[2].id /\ evs[4].id = evs[2].id
  /\ DOMAIN evs[2] = {"type", "id"}
  /\ DOMAIN evs[3] = {"type", "id", "delta"}
  /\ DOMAIN evs[4] = {"type", "id"}

(* ------------------------------ properties ----------------------------- *)

\* C1: a history that passes moderation, has an anchor attachment turn that
\* is not acknowledged and a latest follow-up user turn without analysis
\* intent gets the acknowledgment prompt, and the completion engine is not
\* reached.
C1_AckWhenFollowUpLacksIntent ==
  ( /\ Ended
    /\ ModerationPassed
    /\ HasAnchor(messages)
    /\ ~Acknowledged(messages)
    /\ FollowUps(messages) # {}
    /\ ~FollowUpIntent(messages) )
  => ( /\ path = "ack"
       /\ AckInStream
       /\ ~Called("streamText") )

\* C2: when the history passes moderation and has an anchor, the dispatch
\* runs whenever the last user turn after the anchor has analysis intent,
\* acknowledged or not, whatever the earlier follow-up turns say.
C2_DispatchOnLatestIntent ==
  ( /\ PastModeration
    /\ ModerationPassed
    /\ HasAnchor(messages)
    /\ FollowUpIntent(messages) )
  => ( /\ Called("dispatch")
       /\ ~Called("streamText")
       /\ path \notin {"ack", "completion", "denial"} )

\* C2 witness: an acknowledged attachment, an earlier request already
\* answered, and a last follow-up that asks for analysis: the dispatch ran
C2_Witness ==
  /\ pc = "done"
  /\ HasAnchor(messages)
  /\ Acknowledged(messages)
  /\ FollowUpIntent(messages)
  /\ Called("dispatch")
  /\ path = "analysis"

\* C3, as stated: an acknowledged attachment with no follow-up, or with a
\* last follow-up without analysis intent, always ends in the completion
\* engine and never in the acknowledgment message.
C3_AcknowledgedAlwaysCompletes ==
  ( /\ pc = "done"
    /\ HasAnchor(messages)
    /\ Acknowledged(messages)
    /\ ~FollowUpIntent(messages) )
  => ( path = "completion" /\ Called("streamText") /\ ~AckInStream )

\* C3, amended: when such a history passes moderation, every submission of
\* it ends in the completion engine and never emits the acknowledgment
\* message.
C3_AcknowledgedCompletesAfterModeration ==
  ( /\ PastModeration
    /\ ModerationPassed
    /\ HasAnchor(messages)
    /\ Acknowledged(messages)
    /\ ~FollowUpIntent(messages) )
  => ( /\ path = "completion"
       /\ Called("streamText")
       /\ ~AckInStream
       /\ ~Called("dispatch")
       /\ pc \in {"engine", "done"} )

\* C3 witness: the history whose last turn is the acknowledgment was
\* submitted again and answered by the completion engine
C3_Witness ==
  /\ pc = "done"
  /\ HasAnchor(messages)
  /\ Acknowledged(messages)
  /\ FollowUps(messages) = {}
  /\ messages[Len(messages)].role = "assistant"
  /\ path = "completion"

\* the integers nearest to x / 1024
NearestKB(x) ==
  {n \in 0..(x \div 1024 + 1) :
     \A m \in 0..(x \div 1024 + 1) :
       (IF 1024 * n >= x THEN 1024 * n - x ELSE x - 1024 * n)
         <= (IF 1024 * m >= x THEN 1024 * m - x ELSE x - 1024 * m)}

\* the acknowledgment-menu messages the claim allows for an attachment
MenuTexts(meta) ==
  { "Received \"" \o (IF meta.fileName = "" THEN "uploaded-file" ELSE meta.fileName)
      \o "\" (" \o size \o " KB, "
      \o (IF meta.fileType = "" THEN "unknown" ELSE meta.fileType)
      \o "). I can (1) summarize text, (2) run OCR, (3) analyze images, or (4) extract tables. What would you like me to do with this file?" :
    size \in (IF meta.fileSize = NoSize THEN {"unknown"}
              ELSE {ToString(n) : n \in NearestKB(meta.fileSize)}) }

\* C4: a history that passes moderation and has an attachment turn with no
\* acknowledgment and no user turn after it is answered with exactly the
\* acknowledgment menu for the file's name, rounded size in KiB and MIME
\* type (fallbacks for absent fields), with no engine or analyzer call.
C4_AckMenuExact ==
  ( /\ Ended
    /\ ModerationPassed
    /\ HasAnchor(messages)
    /\ ~Acknowledged(messages)
    /\ FollowUps(messages) = {} )
  => ( /\ path = "ack"
       /\ IsSynthesized(events)
       /\ events[3].delta \in MenuTexts(messages[AnchorTurn(messages)].metadata)
       /\ ~Called("streamText")
       /\ ~AnalyzerCalled )

\* C5: in a conversation where every response is appended to the history,
\* the acknowledgment prompt of an anchor is emitted at most once.
C5_AckAtMostOnce == \A i \in DOMAIN ackEmitted : ackEmitted[i] <= 1

\* C5 witness: the prompt of an anchor was emitted, its response appended,
\* a user turn followed, and a later request has been answered
C5_Witness ==
  /\ pc = "done"
  /\ HasAnchor(messages)
  /\ ackEmitted[AnchorTurn(messages)] = 1
  /\ Acknowledged(messages)
  /\ FollowUps(messages) # {}
  /\ path # "ack"

\* C6: when the classifier flags the text of the most recent user turn, the
\* response is exactly one start..finish bracket with the classifier's
\* denial message (the default when it supplies none), and the only thing
\* the request did is the classifier call.
C6_FlaggedDenialOnly ==
  moderationResult.flagged =>
    /\ pc = "done"
    /\ path = "denial"
    /\ events = << [type |-> "start"],
                   [type |-> "text-start", id |-> "moderation-denial-text"],
                   [type |-> "text-delta", id |-> "moderation-denial-text",
                    delta |-> IF moderationResult.denialMessage = ""
                              THEN "Your message violates our guidelines. I can't answer that."
                              ELSE moderationResult.denialMessage],
                   [type |-> "text-end", id |-> "moderation-denial-text"],
                   [type |-> "finish"] >>
    /\ Len(trace) = 1 /\ trace[1].op = "isContentFlagged"

\* C6 witness: a flagged request whose history has an attachment and an
\* analysis-intent follow-up, with the classifier's own message
C6_Witness ==
  /\ pc = "done"
  /\ moderationResult.flagged
  /\ moderationResult.denialMessage # ""
  /\ HasAnchor(messages)
  /\ FollowUpIntent(messages)

\* C7: the classifier is not called when the history has no user turn or
\* the text of the latest user turn is empty; the request goes on to the
\* attachment tracker.
C7_NoClassifierOnEmptyText ==
  (pc \notin {"idle", "start"} /\ LastUserText(messages) = "")
  => ( /\ ~Called("isContentFlagged")
       /\ moderationResult = NoVerdict
       /\ Called("fileDetection") )

\* C7 witness: a request on a history without any user turn went through
C7_Witness ==
  /\ pc = "done"
  /\ messages # <<>>
  /\ UserTurnsOf(messages) = {}
  /\ Called("fileDetection")

\* C8: a synthesized message (denial, acknowledgment, analysis result) is
\* the event sequence start, text-start(id), text-delta(id, text),
\* text-end(id), finish with one id, and nothing else.
C8_SynthesizedShape ==
  (Ended /\ path \in {"denial", "ack", "analysis"})
  => ( /\ IsSynthesized(events)
       /\ events[2].id = CASE path = "denial" -> "moderation-denial-text"
                           [] path = "ack" -> "file-received-text"
                           [] path = "analysis" -> "file-analysis-text" )

\* C8 witness: an analysis result has been streamed
C8_Witness ==
  /\ pc = "done"
  /\ path = "analysis"
  /\ Len(events) = 5
  /\ events[3].delta # ""

\* the number of events of a type in a stream
CountType(evs, type) == Cardinality({i \in 1..Len(evs) : evs[i].type = type})

\* C9: every request ends on exactly one of the four terminal paths with
\* exactly one start/finish bracket in its stream.
C9_OnePathOneBracket ==
  Ended =>
    /\ path \in {"denial", "ack", "analysis", "completion"}
    /\ CountType(events, "start") = 1
    /\ CountType(events, "finish") = 1

\* C10: every request that ends has produced a well-formed stream, start
\* first and finish last, also when an external call failed.
C10_StreamOnFailure ==
  Ended =>
    /\ Len(events) >= 2
    /\ events[1].type = "start"
    /\ events[Len(events)].type = "finish"
    /\ \A i \in 2..(Len(events) - 1) : events[i].type \notin {"start", "finish"}

\* the file name the handler uses for the anchor attachment
AnchorName(msgs) ==
  IF msgs[AnchorTurn(msgs)].metadata.fileName = "" THEN "uploaded-file"
  ELSE msgs[AnchorTurn(msgs)].metadata.fileName

\* the backend call that ended the analysis failed
LastCallFailed == trace # <<>> /\ trace[Len(trace)].op = "failed"

\* a failed call that is not a chunk summary is followed by no call to the
\* same endpoint for the same purpose
NotReissued ==
  \A i \in 2..(Len(trace) - 1) :
    (trace[i].op = "failed" /\ trace[i - 1].arg # "pdf-chunk")
    => ~(trace[i + 1].op = "fetch" /\ trace[i + 1].arg = trace[i - 1].arg)

\* C11: in the document, image and plain-text branch a backend call that
\* fails (fetch rejected, or a response that is not ok) ends the request
\* with an analysis text naming the file and the failure, never with a
\* fault, and the failed call is not issued again.
C11_BackendFailureCaught ==
  (Ended /\ LastCallFailed)
  => ( /\ pc = "done"
       /\ path = "analysis"
       /\ IsSynthesized(events)
       /\ Includes(events[3].delta, "\"" \o AnchorName(messages) \o "\"")
       /\ Includes(events[3].delta, trace[Len(trace)].arg)
       /\ NotReissued )

\* the metadata of the anchor attachment
AnchorMeta(msgs) == msgs[AnchorTurn(msgs)].metadata

\* the PDF rule and the image rule of the dispatch, on the declared type and
\* the file name
PdfRule(meta) ==
  \/ ToLowerCase(meta.fileType) = "application/pdf"
  \/ EndsWith(ToLowerCase(meta.fileName), ".pdf")
ImageRule(meta) ==
  \/ StartsWith(ToLowerCase(meta.fileType), "image/")
  \/ \E ext \in {".png", ".jpg", ".jpeg", ".webp"} :
       EndsWith(ToLowerCase(meta.fileName), ext)
TextRule(meta) ==
  \/ ToLowerCase(meta.fileType) \in {"text/plain", "text/csv"}
  \/ EndsWith(ToLowerCase(meta.fileName), ".txt")

\* the branches the dispatch of this request chose, and the branches whose
\* analyzer did something
BranchesChosen == {trace[i].arg : i \in {k \in 1..Len(trace) : trace[k].op = "dispatch"}}
BranchesRun ==
  {b \in {"pdf", "image", "text"} :
     \E i \in 1..Len(trace) :
       \/ b = "pdf" /\ trace[i].op \in {"analyzePDFBuffer", "pdfParse"}
       \/ b = "pdf" /\ trace[i].op = "fetch"
                    /\ trace[i].arg \in {"pdf-single", "pdf-chunk", "pdf-final"}
       \/ b = "image" /\ trace[i].op = "analyzeImageBuffer"
       \/ b = "image" /\ trace[i].op = "fetch" /\ trace[i].arg = "image"
       \/ b = "text" /\ trace[i].op = "toString"
       \/ b = "text" /\ trace[i].op = "fetch" /\ trace[i].arg = "text"}

\* C12: a request that dispatches chooses one branch and runs the analyzer
\* of that branch only; an attachment under the PDF rule (MIME
\* application/pdf, or a name ending in .pdf, in any case) goes to the
\* document branch, one under the image rule but not the PDF rule goes to
\* the image branch, and the others to plain text or unsupported.
C12_PdfFirstOneBranch ==
  Called("dispatch") =>
    /\ Cardinality({i \in 1..Len(trace) : trace[i].op = "dispatch"}) = 1
    /\ BranchesRun \subseteq BranchesChosen
    /\ BranchesChosen \subseteq {"unsupported"} \cup BranchesRun
    /\ PdfRule(AnchorMeta(messages)) => BranchesChosen = {"pdf"}
    /\ (~PdfRule(AnchorMeta(messages)) /\ ImageRule(AnchorMeta(messages)))
         => BranchesChosen = {"image"}
    /\ (~PdfRule(AnchorMeta(messages)) /\ ~ImageRule(AnchorMeta(messages)))
         => BranchesChosen \subseteq {"text", "unsupported"}

\* C12 witness: an attachment with a PDF name and an image MIME, and one
\* with a PDF MIME and a text name, has been analyzed by the document branch
C12_Witness ==
  /\ pc = "done"
  /\ path = "analysis"
  /\ PdfRule(AnchorMeta(messages))
  /\ ImageRule(AnchorMeta(messages)) \/ TextRule(AnchorMeta(messages))
  /\ Called("analyzePDFBuffer")

\* the attachment's bytes read as UTF-8 text
DecodedText(meta) == BufferToString(BufferFrom(base64Of(meta.fileContent)))

\* C13: an attachment under neither the PDF rule nor the image rule goes to
\* the plain-text branch whenever its bytes decode to a text that is not
\* empty after trimming, whatever its declared type and extension; otherwise
\* the dispatch answers with the unsupported-type message and makes no
\* external call.
C13_TextWheneverDecodable ==
  ( /\ Called("dispatch")
    /\ ~PdfRule(AnchorMeta(messages))
    /\ ~ImageRule(AnchorMeta(messages)) )
  => IF Trim(DecodedText(AnchorMeta(messages))) # ""
     THEN BranchesChosen = {"text"}
     ELSE /\ BranchesChosen = {"unsupported"}
          /\ ~AnalyzerCalled
          /\ pc = "done"
          /\ path = "analysis"

\* the first line of a text
FirstLine(s) ==
  IF ~Includes(s, "\n") THEN s
  ELSE SubSeq(s, 1, (CHOOSE i \in 1..Len(s) :
                       /\ CharAt(s, i) = "\n"
                       /\ \A k \in 1..(i - 1) : CharAt(s, k) # "\n") - 1)

\* the analysis ended with a backend call that was answered with success
LastCallSucceeded ==
  pc = "done" /\ path = "analysis" /\ trace # <<>> /\ trace[Len(trace)].op = "fetch"

\* C14: when the backend call that ends an analysis succeeds, the text of
\* the synthesized message begins with an attribution line that names the
\* file, in the document, image and plain-text branch alike; for an image
\* it is the vision attribution prefix for that file name.
C14_AttributionLine ==
  LastCallSucceeded
  => ( /\ IsSynthesized(events)
       /\ Includes(FirstLine(events[3].delta), "\"" \o AnchorName(messages) \o "\"")
       /\ BranchesChosen = {"image"}
            => StartsWith(events[3].delta,
                          "OpenAI image OCR for \"" \o AnchorName(messages) \o "\":\n\n") )

\* the calls of the completion engine made by this request
EngineCalls == {i \in 1..Len(trace) : trace[i].op = "streamText"}

\* C15: a history that passes moderation and has no attachment turn goes to
\* the completion engine and to no analyzer; the engine is called once, with
\* the fixed system prompt, the web search and the vector search tool, a
\* step limit of 10 and parallel tool calls disabled, and its loop never
\* runs more than 10 steps.
C15_CompletionCall ==
  (PastModeration /\ ModerationPassed /\ ~HasAnchor(messages))
  => ( /\ pc \in {"engine", "done"}
       /\ path = "completion"
       /\ ~AnalyzerCalled
       /\ ~Called("dispatch")
       /\ Cardinality(EngineCalls) = 1
       /\ \A i \in EngineCalls :
            /\ trace[i].arg.system = "SYSTEM_PROMPT"
            /\ trace[i].arg.tools = {"webSearch", "vectorDatabaseSearch"}
            /\ trace[i].arg.stopWhen = 10
            /\ trace[i].arg.parallelToolCalls = FALSE
       /\ steps <= 10
       /\ pc = "engine" => steps < 10 )

\* C15 witness: the history [user: "hello"] is with the engine, which has
\* run nine steps that ended in a tool call
C15_Witness ==
  /\ pc = "engine"
  /\ Len(messages) = 1
  /\ messages[1].role = "user"
  /\ LastUserText(messages) = "hello"
  /\ moderationResult \in Verdicts
  /\ steps = 9

\* the entries of the trace made by the attachment stage's analyzers and by
\* the completion stage
LaterStageOps ==
  {"dispatch", "analyzePDFBuffer", "analyzeImageBuffer", "pdfParse", "toString",
   "fetch", "streamText"}

\* C16: the stages of a request run in the order moderation, attachment
\* handling, completion: while the verdict of the classifier is awaited
\* nothing else has begun, every analyzer call and every engine call comes
\* after the attachment detection, which comes after the classifier call,
\* and the engine is called last, after the attachment decision and never
\* next to a dispatch.
C16_StagesInOrder ==
  /\ (Called("isContentFlagged") /\ moderationResult = NoVerdict)
       => (Len(trace) = 1 /\ pc = "moderation")
  /\ \A j \in 1..Len(trace) :
       /\ trace[j].op \in LaterStageOps
            => \E i \in 1..(j - 1) : trace[i].op = "fileDetection"
       /\ trace[j].op = "fileDetection"
            => \A i \in 1..Len(trace) : trace[i].op = "isContentFlagged" => i < j
       /\ trace[j].op = "streamText" => j = Len(trace)
  /\ Called("streamText") => ~Called("dispatch")

\* C16 witness: a request on a history with an acknowledged attachment went
\* through the classifier, the attachment stage and the completion engine
C16_Witness ==
  /\ pc = "done"
  /\ HasAnchor(messages)
  /\ Len(trace) = 3
  /\ trace[1].op = "isContentFlagged"
  /\ trace[2].op = "fileDetection"
  /\ trace[3].op = "streamText"
  /\ moderationResult \in Verdicts

\* the branch the dispatch rules give for an attachment
RuleBranch(meta) ==
  IF PdfRule(meta) THEN "pdf"
  ELSE IF ImageRule(meta) THEN "image"
  ELSE IF TextRule(meta) THEN "text"
  ELSE "unsupported"

\* the decision as a function of the history of the request and of the
\* verdict it was given, and of nothing else
DecisionOf(msgs, verdict) ==
  IF LastUserText(msgs) # "" /\ verdict.flagged THEN "denial"
  ELSE IF ~HasAnchor(msgs) THEN "completion"
  ELSE IF FollowUps(msgs) = {} /\ ~Acknowledged(msgs) THEN "ack"
  ELSE IF FollowUpIntent(msgs) THEN RuleBranch(AnchorMeta(msgs))
  ELSE "completion"

C18_NewestPayloadIsAnchor ==
  /\ (PastModeration /\ ModerationPassed /\ ~HasAnchor(messages))
       => (path = "completion" /\ ~Called("dispatch") /\ ~AckInStream)
  /\ (pc = "done" /\ path = "ack")
       => ( /\ HasAnchor(messages)
            /\ StartsWith(events[3].delta,
                          "Received \"" \o AnchorName(messages) \o "\" (") )
  /\ Called("dispatch")
       => ( /\ HasAnchor(messages)
            /\ BranchesChosen = {RuleBranch(AnchorMeta(messages))}
            /\ \A i \in 1..Len(trace) :
                 trace[i].op \in {"analyzePDFBuffer", "analyzeImageBuffer", "pdfParse"}
                   => trace[i].arg = base64Of(AnchorMeta(messages).fileContent)
            /\ pc \notin {"done", "fault"} => an.name = AnchorName(messages) )

\* C18 witness: of two attachments the newer one, an image, was analyzed
C18_Witness ==
  /\ pc = "done"
  /\ Cardinality(AttachmentTurns(messages)) = 2
  /\ path = "analysis"
  /\ Called("analyzeImageBuffer")

\* C19: the attachment counts as acknowledged exactly when an assistant
\* turn strictly after the anchor has a part of type text that includes the
\* marker Received "<fileName>"; a marker in a reasoning or tool part, in a
\* user turn, or in a turn at or before the anchor does not count.  So in a
\* request that reached the attachment stage the handler's acknowledgment
\* test agrees with that, and with no user turn after the anchor the
\* request gets the prompt exactly when the attachment is not acknowledged
\* in that sense.
C19_AcknowledgedByTextPart ==
  (PastModeration /\ ModerationPassed /\ HasAnchor(messages)) =>
    /\ ackExistsAfter(messages, fileMessageIndex(messages),
                      fileName(messages[fileMessageIndex(messages)].metadata))
         <=> Acknowledged(messages)
    /\ FollowUps(messages) = {} => (path = "ack" <=> ~Acknowledged(messages))

\* the tokens of a text: its maximal runs of letters, digits and underscores
Tokens(s) ==
  {SubSeq(s, i, j) : <<i, j>> \in
     {p \in (1..Len(s)) \X (1..Len(s)) :
        /\ p[1] <= p[2]
        /\ \A k \in p[1]..p[2] : IsWordChar(CharAt(s, k))
        /\ (p[1] = 1 \/ ~IsWordChar(CharAt(s, p[1] - 1)))
        /\ (p[2] = Len(s) \/ ~IsWordChar(CharAt(s, p[2] + 1)))}}

\* analysis intent as the claim words it
IntentOf(text) ==
  \/ Includes(ToLowerCase(text), "analyz")
  \/ Includes(ToLowerCase(text), "analysis")
  \/ "ocr" \in Tokens(ToLowerCase(text))
  \/ "3" \in Tokens(text)

\* the text of the last user turn after the anchor, empty when there is none
FollowUpText(msgs) ==
  IF FollowUps(msgs) = {} THEN "" ELSE TurnText(msgs[LastFollowUp(msgs)])

\* C20: analysis intent holds exactly when the follow-up text contains
\* "analyz" or "analysis" in any case, or the token "ocr" in any case, or
\* the token "3", and for no other text, the empty text of a missing
\* follow-up included: a request on a history with an attachment that
\* passed moderation dispatches exactly in that case.
C20_IntentPattern ==
  (PastModeration /\ ModerationPassed /\ HasAnchor(messages))
  => ( /\ wantsAnalyze(messages, fileMessageIndex(messages))
            <=> IntentOf(FollowUpText(messages))
       /\ Called("dispatch") <=> IntentOf(FollowUpText(messages)) )

\* C20 witness: a follow-up whose only pattern word is the token 3 led to
\* the dispatch
C20_Witness ==
  /\ pc = "done"
  /\ HasAnchor(messages)
  /\ FollowUpText(messages) = "option 3."
  /\ Called("dispatch")

\* the parts of the most recent user turn
LastUserParts(msgs) ==
  msgs[CHOOSE i \in UserTurnsOf(msgs) : \A j \in UserTurnsOf(msgs) : j <= i].parts

\* C21: the text of a turn is the concatenation, in part order and with no
\* separator, of the texts of its parts of type text, and the empty text
\* when the parts field is not a sequence; reasoning and tool parts add
\* nothing.  The classifier is called on that text of the latest user turn
\* (and not at all when it is empty), and the dispatch follows the analysis
\* pattern on that text of the last follow-up.
C21_TextOfTextPartsOnly ==
  /\ \A i \in 1..Len(messages) :
       extractTextFromParts(messages[i].parts) = TurnText(messages[i])
  /\ pc \notin {"idle", "start"} =>
       /\ Called("isContentFlagged") <=> LastUserText(messages) # ""
       /\ Called("isContentFlagged") => trace[1].arg = LastUserText(messages)
  /\ (PastModeration /\ ModerationPassed /\ HasAnchor(messages)) =>
       (Called("dispatch") <=> AnalyzePattern(FollowUpText(messages)))

\* C21 witness: a last user turn with text parts around a reasoning and a
\* tool part was classified and matched on the joined text of its text parts
C21_Witness ==
  /\ pc = "done"
  /\ UserTurnsOf(messages) # {}
  /\ LastUserParts(messages).isArray
  /\ \E k \in 1..Len(LastUserParts(messages).items) :
       LastUserParts(messages).items[k].type = "reasoning"
  /\ Cardinality({k \in 1..Len(LastUserParts(messages).items) :
                    LastUserParts(messages).items[k].type = "text"}) >= 2
  /\ trace[1] = Call("isContentFlagged", "Please analyze it")
  /\ Called("dispatch")

\* the classifier calls of the request in flight
ClassifierCalls == {i \in 1..Len(trace) : trace[i].op = "isContentFlagged"}

\* the history holds a denial that answered an earlier turn
DeniedBefore(msgs) ==
  \E i \in 1..Len(msgs) :
    /\ msgs[i].role = "assistant"
    /\ TurnText(msgs[i]) \in {DefaultDenial, "Denied by policy."}

\* C22: a request calls the classifier at most once, and only on the text
\* of the most recent user turn; a denial is the flagged verdict on that
\* text, so a request whose latest user turn is answered "not flagged" is
\* not denied, whatever the older turns are.
C22_ClassifiesLatestUserTurnOnce ==
  /\ Cardinality(ClassifierCalls) <= 1
  /\ \A i \in ClassifierCalls :
       UserTurnsOf(messages) # {} /\ trace[i].arg = LastUserText(messages)
  /\ path = "denial" => (ClassifierCalls # {} /\ moderationResult.flagged)
  /\ (PastModeration /\ ModerationPassed) => path # "denial"

\* C22 witness: an older user turn was denied, the latest one has another
\* text and was answered "not flagged": the request is not denied
C22_Witness ==
  /\ pc = "done"
  /\ DeniedBefore(messages)
  /\ Cardinality(UserTurnsOf(messages)) >= 2
  /\ \E i \in UserTurnsOf(messages) : TurnText(messages[i]) # LastUserText(messages)
  /\ messages[Len(messages)].role = "user"
  /\ Cardinality(ClassifierCalls) = 1
  /\ moderationResult = Verdict(FALSE, "")
  /\ path # "denial"

\* the backend calls of one kind made by the request in flight
FetchCalls(kind) == {i \in 1..Len(trace) : trace[i].op = "fetch" /\ trace[i].arg = kind}

\* no backend call of this request was rejected (a network error)
NoFetchRejected == \A i \in 1..Len(trace) : trace[i] # Call("failed", NetworkError)

\* ceil(L / 3000)
CeilChunks(L) == (L + 2999) \div 3000

\* the calls of the document branch for an extracted text of length L
DocumentCalls(L) ==
  IF L <= 3000
  THEN /\ FetchCalls("pdf-chunk") = {} /\ FetchCalls("pdf-final") = {}
       /\ Cardinality(FetchCalls("pdf-single")) = (IF L = 0 THEN 0 ELSE 1)
  ELSE /\ FetchCalls("pdf-single") = {}
       /\ Cardinality(FetchCalls("pdf-chunk")) <= CeilChunks(L)
       /\ Cardinality(FetchCalls("pdf-final")) <= 1
       /\ \A f \in FetchCalls("pdf-final") :
            /\ Cardinality(FetchCalls("pdf-chunk")) = CeilChunks(L)
            /\ \A c \in FetchCalls("pdf-chunk") : c < f
       /\ (pc = "done" /\ NoFetchRejected)
            => ( /\ Cardinality(FetchCalls("pdf-chunk")) = CeilChunks(L)
                 /\ Cardinality(FetchCalls("pdf-final")) = 1 )

\* the call counts of C23, at every state of a request
C23_CallCounts ==
  /\ \A i \in 1..Len(trace) : trace[i].op = "fullText" => DocumentCalls(Len(trace[i].arg))
  /\ (\E k \in {"pdf-single", "pdf-chunk", "pdf-final"} : FetchCalls(k) # {})
       => Called("fullText")

NoUsableText ==
  \E i \in 1..Len(trace) : trace[i].op = "pdfText" /\ Trim(trace[i].arg) = ""

\* C24: when the text extracted from the document is empty after trimming,
\* the document branch ends with the message that names the file and
\* advises to run OCR on a scanned image, and makes no backend call.
C24_NoTextAdviceNoCall ==
  NoUsableText =>
    /\ pc = "done" /\ path = "analysis"
    /\ IsSynthesized(events)
    /\ StartsWith(events[3].delta,
                  "Could not extract text from \"" \o AnchorName(messages) \o "\".")
    /\ Includes(events[3].delta, "scanned image")
    /\ Includes(events[3].delta, "Run OCR")
    /\ ~Called("fetch")
    /\ ~Called("failed")

\* C24 witness: pdf-parse returned white space only and the request ended
\* with the advice
C24_Witness ==
  /\ pc = "done"
  /\ \E i \in 1..Len(trace) : trace[i] = Call("pdfText", " \n \n")
  /\ BranchesChosen = {"pdf"}
  /\ events[3].delta = NoTextText(AnchorName(messages))

\* the part of a payload after its first comma (all of it without a comma)
AfterFirstComma(content) ==
  IF ~Includes(content, ",") THEN content
  ELSE SubSeq(content,
              (CHOOSE i \in 1..Len(content) :
                 /\ CharAt(content, i) = ","
                 /\ \A k \in 1..(i - 1) : CharAt(content, k) # ",") + 1,
              Len(content))

\* the part of a payload that is base64: what follows the first comma of a
\* data: URI, and the whole string when there is no data: prefix
PayloadPart(content) ==
  IF StartsWith(content, "data:") THEN AfterFirstComma(content) ELSE content

\* C25: the bytes a dispatch works on are the base64 decoding of the part
\* after the first comma when the payload starts with data:, and of the
\* whole payload when it has no data: prefix, a comma in it or not.
C25_PayloadDecoding ==
  \A i \in 1..Len(trace) :
    /\ trace[i].op \in {"analyzePDFBuffer", "analyzeImageBuffer"}
         => BufferFrom(trace[i].arg)
              = BufferFrom(PayloadPart(AnchorMeta(messages).fileContent))
    /\ trace[i].op = "toString"
         => trace[i].arg
              = BufferToString(BufferFrom(PayloadPart(AnchorMeta(messages).fileContent)))

\* the anchor is the last turn of the history and its own text has a word
\* of the analysis pattern
UploadAsksAnalysis(msgs) ==
  /\ HasAnchor(msgs)
  /\ AnchorTurn(msgs) = Len(msgs)
  /\ msgs[Len(msgs)].role = "user"
  /\ AnalyzePattern(TurnText(msgs[Len(msgs)]))

\* C26: the text of the anchor turn is no follow-up: a request past the
\* moderation gate whose history has no user turn after the anchor never
\* dispatches, and when the anchor turn is the last turn and its own text
\* asks for analysis, the request gets the acknowledgment prompt.
C26_AnchorTextIsNoFollowUp ==
  /\ (PastModeration /\ HasAnchor(messages) /\ FollowUps(messages) = {})
       => ( /\ ~Called("dispatch")
            /\ path \in {"denial", "ack", "completion"}
            /\ ~wantsAnalyze(messages, fileMessageIndex(messages)) )
  /\ (PastModeration /\ ModerationPassed /\ UploadAsksAnalysis(messages))
       => (pc = "done" /\ path = "ack" /\ AckInStream)

\* C26 witness: the client's upload message, which says "Please analyze
\* it", was the last turn and the request was answered with the prompt
C26_Witness ==
  /\ pc = "done"
  /\ UploadAsksAnalysis(messages)
  /\ Includes(TurnText(messages[Len(messages)]), "Please analyze it")
  /\ path = "ack"
  /\ ~Called("dispatch")

\* a step keeps the history or appends to it
AppendOnly ==
  /\ Len(messages') >= Len(messages)
  /\ SubSeq(messages', 1, Len(messages)) = messages

ChunkCallAt(n) ==
  CHOOSE i \in FetchCalls("pdf-chunk") :
    Cardinality({j \in FetchCalls("pdf-chunk") : j <= i}) = n

\* the n-th chunk-summary call was answered with a status that is not ok
ChunkCallNotOk(n) ==
  /\ ChunkCallAt(n) < Len(trace)
  /\ trace[ChunkCallAt(n) + 1].op = "failed"
  /\ trace[ChunkCallAt(n) + 1].arg # NetworkError

\* entry n of the chunk summaries is what the n-th call gave: the failure
\* placeholder of chunk n, or a summary under the heading of chunk n
EntryOfChunk(entry, n) ==
  IF ChunkCallNotOk(n)
  THEN entry = "(Chunk " \o ToString(n) \o " summary failed: "
                 \o trace[ChunkCallAt(n) + 1].arg \o ")"
  ELSE StartsWith(entry, "--- chunk " \o ToString(n) \o " ---\n")

\* C28: in the chunked flow a chunk-summary call answered with a status
\* that is not ok does not end the analysis: the failure placeholder of
\* that chunk is recorded at the chunk's position, the next chunk is
\* summarized next, and after the last chunk the final call is issued,
\* once, over one entry per chunk.
C28_ChunkFailureGoesOn ==
  /\ \A n \in 1..Cardinality(FetchCalls("pdf-chunk")) :
       ChunkCallNotOk(n) =>
         /\ ChunkCallAt(n) + 1 < Len(trace)
         /\ \/ trace[ChunkCallAt(n) + 2] = Call("fetch", "pdf-chunk")
            \/ trace[ChunkCallAt(n) + 2].op = "combined"
         /\ (pc = "done" /\ NoFetchRejected)
              => Cardinality(FetchCalls("pdf-final")) = 1
  /\ pc = "pdfChunk" =>
       /\ Len(an.chunkSummaries) = an.idx - 1
       /\ Cardinality(FetchCalls("pdf-chunk")) = an.idx
       /\ \A n \in 1..Len(an.chunkSummaries) : EntryOfChunk(an.chunkSummaries[n], n)
  /\ pc = "pdfFinal" =>
       /\ Len(an.chunkSummaries) = Len(an.chunks)
       /\ Cardinality(FetchCalls("pdf-chunk")) = Len(an.chunks)
       /\ \A n \in 1..Len(an.chunkSummaries) : EntryOfChunk(an.chunkSummaries[n], n)
       /\ Cardinality(FetchCalls("pdf-final")) = 1
       /\ trace[Len(trace)] = Call("fetch", "pdf-final")
       /\ trace[Len(trace) - 1] = Call("combined", Join(an.chunkSummaries, "\n\n"))

\* C28 witness: the first of three chunk-summary calls was answered with a
\* status that is not ok, the other two with a summary, and the final call
\* gave the analysis
C28_Witness ==
  /\ pc = "done"
  /\ Cardinality(FetchCalls("pdf-chunk")) = 3
  /\ ChunkCallNotOk(1) /\ ~ChunkCallNotOk(2) /\ ~ChunkCallNotOk(3)
  /\ \E i \in 1..Len(trace) :
       /\ trace[i].op = "combined"
       /\ StartsWith(trace[i].arg,
                     "(Chunk 1 summary failed: quota exceeded)\n\n--- chunk 2 ---\n")
  /\ Cardinality(FetchCalls("pdf-final")) = 1
  /\ StartsWith(events[3].delta, "OpenAI analysis for")

\* fullText of the document in analysis, as the trace records it
FullTextInTrace ==
  trace[CHOOSE i \in 1..Len(trace) : trace[i].op = "fullText"].arg

\* C29: the chunks built from a text longer than 3000 characters
\* partition it: joined in order they are the text, none is empty, each
\* but the last has exactly 3000 characters and the last at most 3000.
C29_ChunksPartition ==
  pc \in {"pdfChunk", "pdfFinal"} =>
    /\ Len(FullTextInTrace) > 3000
    /\ an.chunks # << >>
    /\ Join(an.chunks, "") = FullTextInTrace
    /\ \A k \in 1..Len(an.chunks) :
         /\ Len(an.chunks[k]) >= 1
         /\ Len(an.chunks[k]) <= 3000
         /\ k < Len(an.chunks) => Len(an.chunks[k]) = 3000

\* C29 witness: a text of 6001 characters is in three chunks, the last one
\* of one character
C29_Witness ==
  /\ pc = "pdfFinal"
  /\ Len(FullTextInTrace) = 6001
  /\ Len(an.chunks) = 3
  /\ Len(an.chunks[3]) = 1
  /\ an.chunks[2] # an.chunks[1]

\* the history from the newest attachment turn on
AnchorSuffix(msgs) == SubSeq(msgs, AnchorTurn(msgs), Len(msgs))

\* the payload parts handed to the analyzers by this request
AnalyzerPayloads ==
  {trace[i].arg : i \in {k \in 1..Len(trace) :
      trace[k].op \in {"analyzePDFBuffer", "analyzeImageBuffer", "pdfParse"}}}

\* C30: the turns before the newest attachment turn have no effect: a
\* request past the moderation gate prompts, dispatches or completes as its
\* history from the newest attachment turn on decides, the prompt names
\* that attachment, and the branch and the payload handed to the analyzer
\* are that attachment's.
C30_OlderAttachmentsIgnored ==
  (PastModeration /\ ModerationPassed /\ HasAnchor(messages)) =>
    LET suffix == AnchorSuffix(messages)
        newest == messages[AnchorTurn(messages)].metadata
    IN /\ path = "ack" <=> sendsAck(suffix, 1)
       /\ Called("dispatch") <=> (~sendsAck(suffix, 1) /\ wantsAnalyze(suffix, 1))
       /\ path = "completion" <=> (~sendsAck(suffix, 1) /\ ~wantsAnalyze(suffix, 1))
       /\ path = "ack" => events = FileReceivedStream(AckText(newest))
       /\ Called("dispatch") =>
            /\ BranchesChosen = {Branch(newest)}
            /\ AnalyzerPayloads \subseteq {base64Of(newest.fileContent)}

\* C30 witness: an older attachment and a request to analyze it precede the
\* newest attachment turn: the request is answered with the prompt for the
\* newest attachment, and nothing is dispatched
C30_Witness ==
  /\ pc = "done"
  /\ Cardinality(AttachmentTurns(messages)) = 2
  /\ \E i \in 1..(AnchorTurn(messages) - 1) :
       messages[i].role = "user" /\ TurnText(messages[i]) = "Please ANALYZE it"
  /\ path = "ack"
  /\ StartsWith(events[3].delta, "Received \"b.PNG\"")
  /\ ~Called("dispatch")

====
